---- MODULE Spec2Model ----
(***************************************************************************)
(* Model of src/src/seal.rs: the seal dispatch layer of filecoin-proofs.   *)
(* The label envelope (Labels, convert_labels, Into<RawLabels<Tree>>), the *)
(* public sealing phases and the on-disk cache they work on.               *)
(*                                                                         *)
(* The sealing backend (filecoin_proofs_v1), its with_shape! macro and the *)
(* crate's RegisteredSealProof are not part of seal.rs; they are modelled  *)
(* from the contracts the specification gives them.                        *)
(***************************************************************************)
EXTENDS Integers, Sequences, FiniteSets, TLC

VARIABLES
    cache,      \* sector directory -> the backend artifacts its cache holds
    sealed,     \* sector directory -> state of the sealed-output file
    call,       \* the last public call: operation, key arguments, result
    invoked,    \* the backend operations the last public call invoked, in order
    done,       \* history: the phases that have succeeded, per sector and directory
    lab,        \* label-envelope harness: wrap with one shape, unwrap with another
    own         \* the caller's variables holding phase-1 outputs, and the outputs taken

vars == <<cache, sealed, call, invoked, done, lab, own>>

(***************************** bounds **************************************)
NumSectors == 1
MaxLayers == 2
MaxBatch == 1
MaxOutputs == 3

(************************** data model *************************************)
\* seal.rs:5-7, the four sector shapes of the backend
Shapes == {"SectorShape2KiB", "SectorShape8MiB", "SectorShape512MiB", "SectorShape32GiB"}

\* sector sizes of the registry (one per Labels variant, seal.rs:29-34)
RegistrySizes == {"2KiB", "8MiB", "512MiB", "32GiB"}
\* a sector size the registry does not know
AbsentSize == "64GiB"
SectorSizes == RegistrySizes \cup {AbsentSize}

Versions == {"V1", "V2"}

\* crate::RegisteredSealProof, as the specification's ProofType {version, sector_size}
RegisteredSealProof == [sector_size : SectorSizes, version : Versions]

\* RegisteredSealProof::version and ::sector_size
version(proof) == proof.version
sector_size(proof) == proof.sector_size

\* The variant name of a proof type of the registry, as matched in seal.rs:42-71:
\* StackedDrg2KiBV1 | StackedDrg8MiBV1 | StackedDrg512MiBV1 | StackedDrg32GiBV1
Variant(proof) ==
    CASE proof.sector_size = "2KiB"   -> "StackedDrg2KiBV1"
      [] proof.sector_size = "8MiB"   -> "StackedDrg8MiBV1"
      [] proof.sector_size = "512MiB" -> "StackedDrg512MiBV1"
      [] proof.sector_size = "32GiB"  -> "StackedDrg32GiBV1"
      [] OTHER                        -> "NoVariant"

LabelTags == {"StackedDrg2KiBV1", "StackedDrg8MiBV1", "StackedDrg512MiBV1", "StackedDrg32GiBV1"}

\* enum Labels (seal.rs:29-34): the payload type each variant carries
PayloadShape(tag) ==
    CASE tag = "StackedDrg2KiBV1"   -> "SectorShape2KiB"
      [] tag = "StackedDrg8MiBV1"   -> "SectorShape8MiB"
      [] tag = "StackedDrg512MiBV1" -> "SectorShape512MiB"
      [] tag = "StackedDrg32GiBV1"  -> "SectorShape32GiB"

SectorIds == 1..NumSectors
\* a layer's labels: derived from the sector they belong to, or still zero
LayerValues == 0..NumSectors

\* the label data of the backend: one value per layer, at least one layer
LabelData == UNION {[1..n -> LayerValues] : n \in 1..MaxLayers}

\* RawLabels<Tree>: backend labels, typed by the tree shape they were built for
RawLabels == [tree : Shapes, layers : LabelData]

\* Results of calls: Ok(val), Err(err), or a panic (the thread aborts)
NoVal == [none |-> TRUE]
Ok(v) == [kind |-> "Ok", err |-> "", val |-> v]
Err(e) == [kind |-> "Err", err |-> e, val |-> NoVal]
Panic(msg) == [kind |-> "Panic", err |-> msg, val |-> NoVal]

(************************* label envelope **********************************)
\* Any::downcast_ref::<RawLabels<Shape>>(labels): Some iff the concrete type matches
downcast_ref(raw, shape) == IF raw.tree = shape THEN Ok(raw) ELSE Err("None")

\* a wrap that drops the layers it was given
convert_labels_Dropping(proof, labels) ==
    IF downcast_ref(labels, PayloadShape(Variant(proof))).kind = "Ok"
    THEN Ok([tag |-> Variant(proof),
             raw |-> [labels EXCEPT !.layers = [i \in 1..1 |-> labels.layers[1]]]])
    ELSE Panic("invalid labels provided")

\* a wrap that files every payload under the first variant
convert_labels_FirstVariant(proof, labels) ==
    IF downcast_ref(labels, PayloadShape(Variant(proof))).kind = "Ok"
    THEN Ok([tag |-> "StackedDrg2KiBV1", raw |-> labels])
    ELSE Panic("invalid labels provided")

\* fn convert_labels<Tree>(proof, labels: &RawLabels<Tree>) -> Labels
convert_labels(proof, labels) ==
    IF downcast_ref(labels, PayloadShape(Variant(proof))).kind = "Ok"
    THEN Ok([tag |-> Variant(proof), raw |-> labels])
    ELSE Panic("invalid labels provided")

\* impl Into<RawLabels<Tree>> for Labels: fn into(self) -> RawLabels<Tree>
LabelsInto(labels, Tree) ==
    CASE labels.tag = "StackedDrg2KiBV1" ->
            IF downcast_ref(labels.raw, Tree).kind = "Ok"
            THEN Ok(labels.raw)
            ELSE Panic("cannot convert 2kib into different structure")
      [] labels.tag = "StackedDrg8MiBV1" ->
            IF downcast_ref(labels.raw, Tree).kind = "Ok"
            THEN Ok(labels.raw)
            ELSE Panic("cannot convert 8Mib into different structure")
      [] labels.tag = "StackedDrg512MiBV1" ->
            IF downcast_ref(labels.raw, Tree).kind = "Ok"
            THEN Ok(labels.raw)
            ELSE Panic("cannot convert 512Mib into different structure")
      [] labels.tag = "StackedDrg32GiBV1" ->
            IF downcast_ref(labels.raw, Tree).kind = "Ok"
            THEN Ok(labels.raw)
            ELSE Panic("cannot convert 32gib into different structure")

\* enum Labels: every value pairs a variant with a payload of that variant's type
Labels == {l \in [tag : LabelTags, raw : RawLabels] : l.raw.tree = PayloadShape(l.tag)}

(************************* label harness ***********************************)
\* wrap(A, L) followed by unwrap(., B), for every proof type A of the registry,
\* every tree shape B and every raw label value L
Idle == [pc |-> "idle"]

LabInputs ==
    [pc : {"start"}, proof : [sector_size : RegistrySizes, version : {"V1"}],
     Tree : Shapes, raw : RawLabels, env : {NoVal}, out : {NoVal}]

Wrap ==
    /\ lab.pc = "start"
    /\ lab' = [lab EXCEPT !.pc = "wrapped", !.env = convert_labels(lab.proof, lab.raw)]
    /\ UNCHANGED <<cache, sealed, call, invoked, done, own>>

Unwrap ==
    /\ lab.pc = "wrapped"
    /\ lab.env.kind = "Ok"
    /\ lab' = [lab EXCEPT !.pc = "unwrapped", !.out = LabelsInto(lab.env.val, lab.Tree)]
    /\ UNCHANGED <<cache, sealed, call, invoked, done, own>>

(***************************** inputs **************************************)
\* the sector directories a caller works in: each holds a cache directory and
\* the sealed-output file of one sector at a time
Dirs == {"dirA", "dirB"}
ProverIds == {"prover0"}
Tickets == {"ticket1"}
PieceSeqs == {<<"pa", "pb">>, <<"pb", "pa">>}

\* how a call to the backend ends: it succeeds or it fails
BackendOutcomes == {"ok", "fail"}

(************************ sealing backend **********************************)
\* the state of one cache directory
Empty == [kind |-> "empty"]
Artifacts(config, stage) == [kind |-> "artifacts", config |-> config, stage |-> stage]

\* filecoin_proofs_v1::StoreConfig: where the artifacts live and the tree they are for
StoreConfig(dir, Tree) == [path |-> dir, tree |-> Tree]

\* the registry's table, sector size -> shape
ShapeForSize(size) ==
    CASE size = "2KiB"   -> "SectorShape2KiB"
      [] size = "8MiB"   -> "SectorShape8MiB"
      [] size = "512MiB" -> "SectorShape512MiB"
      [] size = "32GiB"  -> "SectorShape32GiB"

\* with_shape!(size, f, args): the shape f is specialized for, or no shape
with_shape(size) ==
    IF size \in RegistrySizes THEN Ok(ShapeForSize(size)) ELSE Err("UnsupportedSectorSize")

\* RegisteredSealProof::as_v1_config
as_v1_config(proof) == [sector_size |-> proof.sector_size]

\* the data commitment of an ordered piece sequence
BackendCommD(pieces) == <<"comm_d", pieces>>
CommDs == {BackendCommD(ps) : ps \in PieceSeqs}

\* the replica commitment the backend derives in phase 2
BackendCommR(raw, comm_d) == <<"comm_r", raw.tree, raw.layers, comm_d>>

\* the labels the backend derives for a sector
BackendLabels(Tree, sector) == [tree |-> Tree, layers |-> [i \in 1..MaxLayers |-> sector]]

\* What one public call does: its result, the disk it leaves and the backend
\* operations it invoked
Outcome(result, c, s, inv) == [result |-> result, cache |-> c, sealed |-> s, invoked |-> inv]
Fail(result) == Outcome(result, cache, sealed, <<>>)

\* filecoin_proofs_v1::seal_pre_commit_phase1::<Tree>
Backend_seal_pre_commit_phase1(Tree, config, dir, sector, pieces, be) ==
    LET inv == <<[fn |-> "seal_pre_commit_phase1", shape |-> Tree, ok |-> be = "ok"]>> IN
    CASE be = "ok" ->
            LET raw == BackendLabels(Tree, sector) IN
            Outcome(Ok([labels |-> raw, config |-> StoreConfig(dir, Tree),
                        comm_d |-> BackendCommD(pieces)]),
                    [cache EXCEPT ![dir] = Artifacts(StoreConfig(dir, Tree), 1)],
                    [sealed EXCEPT ![dir] = "staged"], inv)
      [] be = "fail" -> Outcome(Err("BackendFailure"), cache, sealed, inv)

\* filecoin_proofs_v1::validate_cache_for_precommit_phase2::<Tree>
validate_cache_for_precommit_phase2(Tree, dir, p1) ==
    /\ sealed[dir] # "absent"
    /\ cache[dir].kind = "artifacts"
    /\ cache[dir].config = p1.config
    /\ p1.config = StoreConfig(dir, Tree)

\* filecoin_proofs_v1::seal_pre_commit_phase2::<Tree>
Backend_seal_pre_commit_phase2(Tree, config, p1, dir, be) ==
    LET inv == <<[fn |-> "seal_pre_commit_phase2", shape |-> Tree, ok |-> be = "ok"]>> IN
    CASE be = "ok" ->
            Outcome(Ok([comm_d |-> p1.comm_d, comm_r |-> BackendCommR(p1.labels, p1.comm_d)]),
                    [cache EXCEPT ![dir] = Artifacts(p1.config, 2)],
                    [sealed EXCEPT ![dir] = "sealed"], inv)
      [] be = "fail" -> Outcome(Err("BackendFailure"), cache, sealed, inv)

\* filecoin_proofs_v1::clear_cache::<Tree>
Backend_clear_cache(Tree, dir) ==
    Outcome(Ok(NoVal), [cache EXCEPT ![dir] = Empty], sealed,
            <<[fn |-> "clear_cache", shape |-> Tree, ok |-> TRUE]>>)

\* filecoin_proofs_v1::compute_comm_d(sector_size, piece_infos)
Backend_compute_comm_d(size, pieces) ==
    Outcome(Ok(BackendCommD(pieces)), cache, sealed,
            <<[fn |-> "compute_comm_d", shape |-> "none", ok |-> TRUE]>>)

(************************** public operations ******************************)
\* a dispatch that ignores the proof type's sector size
DispatchSize_Fixed(proof) == "2KiB"

\* u64::from(registered_proof.sector_size()), the value handed to with_shape!
DispatchSize(proof) == sector_size(proof)

\* a clear_cache that reports an error when it finds nothing to remove
clear_cache_Strict(size, dir) ==
    LET shape == with_shape(size) IN
    IF shape.kind # "Ok" THEN Fail(shape)
    ELSE IF cache[dir] = Empty THEN Fail(Err("BackendFailure"))
    ELSE Backend_clear_cache(shape.val, dir)

\* pub fn clear_cache(sector_size, cache_path)
clear_cache(size, dir) ==
    LET shape == with_shape(size) IN
    IF shape.kind # "Ok" THEN Fail(shape) ELSE Backend_clear_cache(shape.val, dir)

\* a phase 1 that runs the backend a second time when the first run failed
seal_pre_commit_phase1_inner_Retry(Tree, registered_proof, dir, sector, pieces, be) ==
    LET config == as_v1_config(registered_proof)
        first == Backend_seal_pre_commit_phase1(Tree, config, dir, sector, pieces, be)
        again == Backend_seal_pre_commit_phase1(Tree, config, dir, sector, pieces, "ok")
        output == IF first.result.kind = "Ok" THEN first
                  ELSE [again EXCEPT !.invoked = first.invoked \o again.invoked]
        labels == convert_labels(registered_proof, output.result.val.labels)
    IN  IF labels.kind # "Ok"
        THEN [output EXCEPT !.result = labels]
        ELSE [output EXCEPT !.result =
                   Ok([registered_proof |-> registered_proof,
                       labels |-> labels.val,
                       config |-> output.result.val.config,
                       comm_d |-> output.result.val.comm_d])]

\* fn seal_pre_commit_phase1_inner<Tree>
seal_pre_commit_phase1_inner(Tree, registered_proof, dir, sector, pieces, be) ==
    LET config == as_v1_config(registered_proof)
        output == Backend_seal_pre_commit_phase1(Tree, config, dir, sector, pieces, be)
    IN  IF output.result.kind # "Ok" THEN output
        ELSE LET labels == convert_labels(registered_proof, output.result.val.labels) IN
             IF labels.kind # "Ok"
             THEN [output EXCEPT !.result = labels]
             ELSE [output EXCEPT !.result =
                        Ok([registered_proof |-> registered_proof,
                            labels |-> labels.val,
                            config |-> output.result.val.config,
                            comm_d |-> output.result.val.comm_d])]

\* a phase 1 that dispatches without looking at the protocol version
seal_pre_commit_phase1_NoVersionCheck(registered_proof, dir, sector, pieces, be) ==
    LET shape == with_shape(DispatchSize(registered_proof)) IN
    IF shape.kind # "Ok" THEN Fail(shape)
    ELSE seal_pre_commit_phase1_inner(shape.val, registered_proof, dir, sector, pieces, be)

\* pub fn seal_pre_commit_phase1
seal_pre_commit_phase1(registered_proof, dir, sector, pieces, be) ==
    IF version(registered_proof) # "V1" THEN Fail(Err("UnsupportedVersion"))
    ELSE LET shape == with_shape(DispatchSize(registered_proof)) IN
         IF shape.kind # "Ok" THEN Fail(shape)
         ELSE seal_pre_commit_phase1_inner(shape.val, registered_proof, dir, sector, pieces, be)

\* a phase 2 that goes to the backend without validating the cache
seal_pre_commit_phase2_inner_NoValidation(Tree, phase1_output, dir, be) ==
    LET raw == LabelsInto(phase1_output.labels, Tree) IN
    IF raw.kind # "Ok" THEN Fail(raw)
    ELSE LET p1 == [labels |-> raw.val, config |-> phase1_output.config,
                    comm_d |-> phase1_output.comm_d]
             output == Backend_seal_pre_commit_phase2(
                           Tree, as_v1_config(phase1_output.registered_proof), p1, dir, be)
         IN  IF output.result.kind # "Ok" THEN output
             ELSE [output EXCEPT !.result =
                        Ok([registered_proof |-> phase1_output.registered_proof,
                            comm_d |-> output.result.val.comm_d,
                            comm_r |-> output.result.val.comm_r])]

\* a phase 2 that returns the commitment of no pieces as comm_d
seal_pre_commit_phase2_inner_OwnCommD(Tree, phase1_output, dir, be) ==
    LET raw == LabelsInto(phase1_output.labels, Tree) IN
    IF raw.kind # "Ok" THEN Fail(raw)
    ELSE LET p1 == [labels |-> raw.val, config |-> phase1_output.config,
                    comm_d |-> phase1_output.comm_d]
             valid == validate_cache_for_precommit_phase2(Tree, dir, p1)
             validated == <<[fn |-> "validate_cache_for_precommit_phase2", shape |-> Tree,
                             ok |-> valid]>>
         IN  IF ~valid
             THEN Outcome(Err("CacheValidationFailed"), cache, sealed, validated)
             ELSE LET output == Backend_seal_pre_commit_phase2(
                                    Tree, as_v1_config(phase1_output.registered_proof),
                                    p1, dir, be)
                  IN  IF output.result.kind # "Ok"
                      THEN [output EXCEPT !.invoked = validated \o output.invoked]
                      ELSE [output EXCEPT
                              !.invoked = validated \o output.invoked,
                              !.result =
                                Ok([registered_proof |-> phase1_output.registered_proof,
                                    comm_d |-> BackendCommD(<<>>),
                                    comm_r |-> output.result.val.comm_r])]

\* fn seal_pre_commit_phase2_inner<Tree>
seal_pre_commit_phase2_inner(Tree, phase1_output, dir, be) ==
    LET raw == LabelsInto(phase1_output.labels, Tree) IN
    IF raw.kind # "Ok" THEN Fail(raw)
    ELSE LET p1 == [labels |-> raw.val, config |-> phase1_output.config,
                    comm_d |-> phase1_output.comm_d]
             valid == validate_cache_for_precommit_phase2(Tree, dir, p1)
             validated == <<[fn |-> "validate_cache_for_precommit_phase2", shape |-> Tree,
                             ok |-> valid]>>
         IN  IF ~valid
             THEN Outcome(Err("CacheValidationFailed"), cache, sealed, validated)
             ELSE LET output == Backend_seal_pre_commit_phase2(
                                    Tree, as_v1_config(phase1_output.registered_proof),
                                    p1, dir, be)
                  IN  IF output.result.kind # "Ok"
                      THEN [output EXCEPT !.invoked = validated \o output.invoked]
                      ELSE [output EXCEPT
                              !.invoked = validated \o output.invoked,
                              !.result =
                                Ok([registered_proof |-> phase1_output.registered_proof,
                                    comm_d |-> output.result.val.comm_d,
                                    comm_r |-> output.result.val.comm_r])]

\* a phase 2 that stamps its output with a proof type of its own
seal_pre_commit_phase2_Restamp(phase1_output, dir, be) ==
    LET out == IF version(phase1_output.registered_proof) # "V1"
               THEN Fail(Err("UnsupportedVersion"))
               ELSE LET shape == with_shape(DispatchSize(phase1_output.registered_proof)) IN
                    IF shape.kind # "Ok" THEN Fail(shape)
                    ELSE seal_pre_commit_phase2_inner(shape.val, phase1_output, dir, be)
    IN  IF out.result.kind # "Ok" THEN out
        ELSE [out EXCEPT !.result.val.registered_proof =
                            [sector_size |-> "2KiB", version |-> "V1"]]

\* pub fn seal_pre_commit_phase2
seal_pre_commit_phase2(phase1_output, dir, be) ==
    IF version(phase1_output.registered_proof) # "V1" THEN Fail(Err("UnsupportedVersion"))
    ELSE LET shape == with_shape(DispatchSize(phase1_output.registered_proof)) IN
         IF shape.kind # "Ok" THEN Fail(shape)
         ELSE seal_pre_commit_phase2_inner(shape.val, phase1_output, dir, be)

\* a compute_comm_d whose answer depends on what the sector directories hold
compute_comm_d_Stateful(registered_proof, pieces) ==
    IF \A d \in Dirs : sealed[d] = "absent"
    THEN Backend_compute_comm_d(sector_size(registered_proof), pieces)
    ELSE Backend_compute_comm_d(sector_size(registered_proof), <<>>)

\* pub fn compute_comm_d(registered_proof, piece_infos)
compute_comm_d(registered_proof, pieces) ==
    Backend_compute_comm_d(sector_size(registered_proof), pieces)

\* todo!(): the call panics whatever its arguments
todo == Fail(Panic("not yet implemented"))

\* pub fn seal_commit_phase1
seal_commit_phase1(dir, prover_id, sector, ticket, seed, pre_commit, pieces) == todo

\* pub fn seal_commit_phase2
seal_commit_phase2(phase1_output, prover_id, sector) == todo

\* pub fn verify_seal
verify_seal(registered_proof, comm_r, comm_d, prover_id, sector, ticket, seed, proof_vec) ==
    todo

\* pub fn verify_batch_seal
verify_batch_seal(registered_proof, comm_rs, comm_ds, prover_ids, sectors, tickets, seeds, proof_vecs) ==
    todo

\* pub fn get_unsealed_range
get_unsealed_range(registered_proof, dir, prover_id, sector, comm_d, ticket) == todo

(****************************** actions ************************************)
\* the proof types the calls are tried with: every sector size under the
\* supported version, and one proof type of another version
ProofInputs ==
    [sector_size : SectorSizes, version : {"V1"}]
    \cup [sector_size : {"2KiB", AbsentSize}, version : {"V2"}]

\* the labels a backend run can have produced, wrapped under any variant
PipelineLabels ==
    {[tag |-> t, raw |-> BackendLabels(PayloadShape(t), s)] : t \in LabelTags, s \in SectorIds}

\* the label variants a record of proof type p is tried with: its own and another one
OtherTag(tag) ==
    CASE tag = "StackedDrg2KiBV1"   -> "StackedDrg8MiBV1"
      [] tag = "StackedDrg8MiBV1"   -> "StackedDrg512MiBV1"
      [] tag = "StackedDrg512MiBV1" -> "StackedDrg32GiBV1"
      [] tag = "StackedDrg32GiBV1"  -> "StackedDrg2KiBV1"
TagsFor(p) ==
    IF p.sector_size \in RegistrySizes
    THEN {Variant(p), OtherTag(Variant(p))}
    ELSE {"StackedDrg2KiBV1"}

\* The SealPreCommitPhase1Output values a caller hands to phase 2. The record is
\* Clone + Deserialize with public fields, so it need not come from phase 1:
\* its proof type, its label variant and its comm_d are arbitrary; its config
\* is one the backend writes to some directory for the label variant's tree
Phase1Outputs ==
    {r \in {[registered_proof |-> p, labels |-> l, config |-> StoreConfig(d, l.raw.tree),
              comm_d |-> c] : p \in ProofInputs, l \in PipelineLabels, d \in Dirs,
                               c \in CommDs} :
        r.labels.tag \in TagsFor(r.registered_proof)}

\* the SealPreCommitPhase2Output values a caller hands to commit phase 1: what
\* phase 2 returns for sector 1 and the pieces <<pa, pb>>, and records of proof
\* types that are not supported
Phase2Outputs ==
    {[registered_proof |-> p,
      comm_r |-> BackendCommR(BackendLabels(ShapeForSize(p.sector_size), 1),
                              BackendCommD(<<"pa", "pb">>)),
      comm_d |-> BackendCommD(<<"pa", "pb">>)] :
        p \in [sector_size : RegistrySizes, version : {"V1"}]}
    \cup {[registered_proof |-> p, comm_r |-> <<"comm_r">>,
            comm_d |-> BackendCommD(<<"pa", "pb">>)] :
            p \in {[sector_size |-> AbsentSize, version |-> "V1"],
                    [sector_size |-> "2KiB", version |-> "V2"]}}
ProofVecs == {<<0>>, <<1>>}

\* the SealCommitPhase1Output values a caller hands to commit phase 2
Commit1Outputs ==
    {[registered_proof |-> p2.registered_proof, vanilla_proofs |-> <<>>, comm_r |-> p2.comm_r,
      comm_d |-> p2.comm_d, replica_id |-> <<"prover0", 1, p2.comm_r>>, seed |-> "seed2",
      ticket |-> "ticket1"] : p2 \in Phase2Outputs}

\* one entry of the parallel arrays of verify_batch_seal
BatchEntries ==
    {[comm_r |-> p2.comm_r, comm_d |-> p2.comm_d, proof_vec |-> v] :
        p2 \in {x \in Phase2Outputs : x.registered_proof = [sector_size |-> "2KiB", version |-> "V1"]},
        v \in ProofVecs}

\* the proof types the caller of the ownership runs seals with
MoveProofs == [sector_size : {"2KiB", "32GiB"}, version : {"V1"}]

\* the proof types the pass-through entry points are tried with
AdapterProofs == [sector_size : {"2KiB", AbsentSize}, version : {"V1"}]

NoCall == [op |-> "none", proof |-> NoVal, dir |-> "none", arg |-> NoVal, result |-> Ok(NoVal)]

\* what a public call leaves: the disk, what it invoked, its result
Effect(op, proof, dir, arg, out, success) ==
    /\ cache' = out.cache
    /\ sealed' = out.sealed
    /\ invoked' = out.invoked
    /\ call' = [op |-> op, proof |-> proof, dir |-> dir, arg |-> arg, result |-> out.result]
    /\ done' = IF out.result.kind = "Ok" THEN done \cup success ELSE done

\* the state after a public call made with values the caller built for it
Apply(op, proof, dir, arg, out, success) ==
    /\ Effect(op, proof, dir, arg, out, success)
    /\ UNCHANGED <<lab, own>>

(**************** ownership of the phase-1 output *************************)
\* The caller's variables of type SealPreCommitPhase1Output: not yet assigned,
\* holding an output (a value of its own, told apart by id), or moved from
Bindings == {"out1", "out2"}
Unbound == [state |-> "unbound"]
Moved == [state |-> "moved"]
Live(id, rec) == [state |-> "live", id |-> id, rec |-> rec]

NoOutputs == [bind |-> [b \in Bindings |-> Unbound], taken |-> {}, next |-> 1]

\* a phase 2 that borrows its argument: the caller's variable keeps the output
MoveArg_Borrow(bind, b) == bind

\* seal_pre_commit_phase2(phase1_output: SealPreCommitPhase1Output, ..): the
\* argument is passed by value, the caller's variable is moved from
MoveArg(bind, b) == [bind EXCEPT ![b] = Moved]

ClearCache ==
    \E size \in SectorSizes, dir \in Dirs :
        /\ lab = Idle
        /\ Apply("clear_cache", NoVal, dir, [size |-> size], clear_cache(size, dir), {})

SealPreCommitPhase1 ==
    \E proof \in ProofInputs, dir \in Dirs, sector \in SectorIds,
       pieces \in PieceSeqs, be \in BackendOutcomes :
        LET out == seal_pre_commit_phase1(proof, dir, sector, pieces, be) IN
        /\ lab = Idle
        \* a backend failure is a separate step only where the backend is reached
        /\ be = "fail" => out.invoked # <<>>
        /\ Apply("seal_pre_commit_phase1", proof, dir, [pieces |-> pieces],
                 out, {<<"seal_pre_commit_phase1", dir>>})

SealPreCommitPhase2 ==
    \E p1 \in Phase1Outputs, dir \in Dirs, be \in BackendOutcomes :
        LET out == seal_pre_commit_phase2(p1, dir, be) IN
        /\ lab = Idle
        /\ be = "fail" => out.result = Err("BackendFailure")
        /\ Apply("seal_pre_commit_phase2", p1.registered_proof, dir, p1,
                 out, {<<"seal_pre_commit_phase2", dir>>})

SealCommitPhase1 ==
    \E p2 \in Phase2Outputs, dir \in Dirs :
        /\ lab = Idle
        /\ Apply("seal_commit_phase1", p2.registered_proof, dir, p2,
                 seal_commit_phase1(dir, "prover0", 1, "ticket1", "seed2", p2, <<"pa", "pb">>),
                 {<<"seal_commit_phase1", dir>>})

SealCommitPhase2 ==
    \E c1 \in Commit1Outputs :
        /\ lab = Idle
        /\ Apply("seal_commit_phase2", c1.registered_proof, "none", c1,
                 seal_commit_phase2(c1, "prover0", 1),
                 {<<"seal_commit_phase2", "none">>})

VerifySeal ==
    \E p2 \in Phase2Outputs, proof_vec \in ProofVecs :
        /\ lab = Idle
        /\ Apply("verify_seal", p2.registered_proof, "none",
                 [comm_r |-> p2.comm_r, comm_d |-> p2.comm_d, proof_vec |-> proof_vec],
                 verify_seal(p2.registered_proof, p2.comm_r, p2.comm_d, "prover0", 1, "ticket1",
                             "seed2", proof_vec), {})

VerifyBatchSeal ==
    \E proof \in AdapterProofs, n \in 0..MaxBatch : \E es \in [1..n -> BatchEntries] :
        /\ lab = Idle
        /\ Apply("verify_batch_seal", proof, "none", es,
                 verify_batch_seal(proof, [i \in 1..n |-> es[i].comm_r],
                                   [i \in 1..n |-> es[i].comm_d], [i \in 1..n |-> "prover0"],
                                   [i \in 1..n |-> 1], [i \in 1..n |-> "ticket1"],
                                   [i \in 1..n |-> "seed2"], [i \in 1..n |-> es[i].proof_vec]),
                 {})

GetUnsealedRange ==
    \E proof \in AdapterProofs, dir \in Dirs :
        /\ lab = Idle
        /\ Apply("get_unsealed_range", proof, dir, NoVal,
                 get_unsealed_range(proof, dir, "prover0", 1, BackendCommD(<<"pa", "pb">>),
                                    "ticket1"), {})

ComputeCommD ==
    \E proof \in AdapterProofs, pieces \in PieceSeqs :
        /\ lab = Idle
        /\ Apply("compute_comm_d", proof, "none", [pieces |-> pieces],
                 compute_comm_d(proof, pieces), {})

Init ==
    /\ cache = [d \in Dirs |-> Empty]
    /\ sealed = [d \in Dirs |-> "absent"]
    /\ call = NoCall
    /\ invoked = <<>>
    /\ done = {}
    /\ lab = Idle
    /\ own = NoOutputs

Next ==
    \/ ClearCache
    \/ SealPreCommitPhase1
    \/ SealPreCommitPhase2
    \/ SealCommitPhase1
    \/ SealCommitPhase2
    \/ VerifySeal
    \/ VerifyBatchSeal
    \/ GetUnsealedRange
    \/ ComputeCommD

Spec == Init /\ [][Next]_vars

\* let b = seal_pre_commit_phase1(..)?: the output is a new value, owned by b
BindPhase1 ==
    \E b \in Bindings, proof \in MoveProofs, dir \in Dirs, be \in BackendOutcomes :
        LET out == seal_pre_commit_phase1(proof, dir, 1, <<"pa", "pb">>, be) IN
        /\ lab = Idle
        /\ own.next <= MaxOutputs
        /\ Effect("seal_pre_commit_phase1", proof, dir, [pieces |-> <<"pa", "pb">>],
                  out, {<<"seal_pre_commit_phase1", dir>>})
        /\ own' = IF out.result.kind = "Ok"
                  THEN [own EXCEPT !.bind[b] = Live(own.next, out.result.val),
                                   !.next = own.next + 1]
                  ELSE own
        /\ UNCHANGED lab

\* let b2 = b1.clone(): SealPreCommitPhase1Output derives Clone; the copy is
\* another value with the same fields
CloneOutput ==
    \E b1 \in Bindings, b2 \in Bindings :
        /\ lab = Idle
        /\ own.next <= MaxOutputs
        /\ own.bind[b1].state = "live"
        /\ b2 # b1
        /\ own' = [own EXCEPT !.bind[b2] = Live(own.next, own.bind[b1].rec),
                              !.next = own.next + 1]
        /\ UNCHANGED <<cache, sealed, call, invoked, done, lab>>

\* seal_pre_commit_phase2(b, ..): the call takes the output b holds
MovePhase2 ==
    \E b \in Bindings, dir \in Dirs, be \in BackendOutcomes :
        /\ lab = Idle
        /\ own.bind[b].state = "live"
        /\ LET p1 == own.bind[b].rec
               out == seal_pre_commit_phase2(p1, dir, be)
           IN  /\ be = "fail" => out.result = Err("BackendFailure")
               /\ Effect("seal_pre_commit_phase2", p1.registered_proof, dir, p1,
                         out, {<<"seal_pre_commit_phase2", dir>>})
        /\ own' = [own EXCEPT !.bind = MoveArg(own.bind, b),
                              !.taken = own.taken \cup {own.bind[b].id}]
        /\ UNCHANGED lab

NextMove == BindPhase1 \/ CloneOutput \/ MovePhase2

SpecMove == Init /\ [][NextMove]_vars

\* the label envelope on its own: wrap, then unwrap
InitLabels ==
    /\ cache = [d \in Dirs |-> Empty]
    /\ sealed = [d \in Dirs |-> "absent"]
    /\ call = NoCall
    /\ invoked = <<>>
    /\ done = {}
    /\ lab \in LabInputs
    /\ own = NoOutputs

NextLabels == Wrap \/ Unwrap

SpecLabels == InitLabels /\ [][NextLabels]_vars

(****************************** claims *************************************)
Succeeded(op, dir) == <<op, dir>> \in done

GenuinePhase2Output(proof) ==
    [registered_proof |-> proof,
     comm_r |-> BackendCommR(BackendLabels(PayloadShape(Variant(proof)), 1),
                             BackendCommD(<<"pa", "pb">>)),
     comm_d |-> BackendCommD(<<"pa", "pb">>)]

\* C2: with valid inputs of a supported proof type and a backend that does not
\* fail, the chain phase 1, phase 2, commit phase 1, commit phase 2 runs through:
\* commit phase 1 called on the output of a successful phase 2, in the directory
\* phase 2 sealed, succeeds; commit phase 2 called after it succeeds; and
\* verify_seal on what the chain produced returns true.
C2_EndToEnd ==
    /\ ( /\ call.op = "seal_commit_phase1"
         /\ Succeeded("seal_pre_commit_phase2", call.dir)
         /\ cache[call.dir].kind = "artifacts"
         /\ cache[call.dir].stage = 2
         /\ sealed[call.dir] = "sealed"
         /\ call.proof \in [sector_size : RegistrySizes, version : {"V1"}]
         /\ cache[call.dir].config = StoreConfig(call.dir, PayloadShape(Variant(call.proof)))
         /\ call.arg = GenuinePhase2Output(call.proof) )
       => call.result.kind = "Ok"
    /\ ( /\ call.op = "seal_commit_phase2"
         /\ \E d \in Dirs : Succeeded("seal_commit_phase1", d) )
       => call.result.kind = "Ok"
    /\ ( /\ call.op = "verify_seal"
         /\ Succeeded("seal_commit_phase2", "none") )
       => call.result = Ok(TRUE)

\* C3: unwrapping an envelope wrapped with shape A against another shape B
\* returns the error LabelConversionMismatch (and does not abort).
C3_MismatchIsAnError ==
    (lab.pc = "unwrapped" /\ PayloadShape(lab.env.val.tag) # lab.Tree)
        => lab.out = Err("LabelConversionMismatch")

SupportedProofs == [sector_size : RegistrySizes, version : {"V1"}]

\* the last call named a sector size the registry does not know
NamesAbsentSize ==
    \/ call.op = "clear_cache" /\ call.arg.size = AbsentSize
    \/ /\ call.op \in {"seal_pre_commit_phase1", "seal_pre_commit_phase2",
                        "seal_commit_phase1", "seal_commit_phase2", "verify_seal",
                        "verify_batch_seal", "get_unsealed_range"}
       /\ call.proof.sector_size = AbsentSize
       /\ call.proof.version = "V1"

CacheConsistent(p1, dir) ==
    /\ sealed[dir] # "absent"
    /\ cache[dir].kind = "artifacts"
    /\ cache[dir].config = p1.config
    /\ p1.config.path = dir

BackendSealed(inv) == \E i \in 1..Len(inv) : inv[i].fn = "seal_pre_commit_phase2"

\* C5: seal_pre_commit_phase2 called (with a supported proof type) on a cache
\* that is not consistent with the phase-1 output fails with
\* CacheValidationFailed, does not invoke the backend's phase-2 sealing and
\* leaves the cache and the sealed output as they were.
C5_InconsistentCacheFails ==
    [][ ( /\ call'.op = "seal_pre_commit_phase2"
          /\ call'.proof \in SupportedProofs
          /\ ~CacheConsistent(call'.arg, call'.dir) )
        => ( /\ call'.result = Err("CacheValidationFailed")
             /\ ~BackendSealed(invoked')
             /\ cache' = cache
             /\ sealed' = sealed ) ]_vars

\* C6: seal_pre_commit_phase1 with a proof type of another protocol version
\* fails with UnsupportedVersion, whatever the sector size (no dispatch), invokes
\* no backend operation and leaves the cache and the sealed output untouched.
C6_UnsupportedVersionFirst ==
    [][ (call'.op = "seal_pre_commit_phase1" /\ call'.proof.version # "V1")
        => ( /\ call'.result = Err("UnsupportedVersion")
             /\ invoked' = <<>>
             /\ cache' = cache
             /\ sealed' = sealed
             /\ done' = done ) ]_vars

C6_Witness ==
    /\ call.op = "seal_pre_commit_phase1"
    /\ call.proof = [sector_size |-> AbsentSize, version |-> "V2"]
    /\ call.result = Err("UnsupportedVersion")
    /\ cache[call.dir].kind = "artifacts"

\* what verify_seal returns for entry e of a batch
VerifyEntry(proof, e) ==
    verify_seal(proof, e.comm_r, e.comm_d, "prover0", 1, "ticket1", "seed2", e.proof_vec).result

\* C7: verify_batch_seal returns true iff verify_seal returns true for each of
\* the n entries.
C7_BatchIsConjunction ==
    call.op = "verify_batch_seal" =>
        /\ call.result.kind = "Ok"
        /\ call.result.val = TRUE <=>
             \A i \in DOMAIN call.arg : VerifyEntry(call.proof, call.arg[i]) = Ok(TRUE)

\* C8: verify_seal returns a boolean and leaves the cache, the sealed replica
\* and the record of completed phases unchanged.
C8_VerifyReadOnly ==
    [][ call'.op = "verify_seal"
        => ( /\ call'.result.kind = "Ok"
             /\ call'.result.val \in BOOLEAN
             /\ cache' = cache
             /\ sealed' = sealed
             /\ done' = done ) ]_vars

\* C9: wrapping raw labels with a shape and unwrapping against the same shape
\* returns the original labels, with no error.
C9_RoundTrip ==
    (lab.pc \in {"wrapped", "unwrapped"} /\ lab.raw.tree = PayloadShape(Variant(lab.proof)))
        => /\ lab.env.kind = "Ok"
           /\ (lab.pc = "unwrapped" /\ lab.Tree = lab.raw.tree) => lab.out = Ok(lab.raw)

C9_Witness ==
    /\ lab.pc = "unwrapped"
    /\ lab.Tree = lab.raw.tree
    /\ lab.raw.tree = "SectorShape32GiB"
    /\ Len(lab.raw.layers) = MaxLayers
    /\ lab.out = Ok(lab.raw)

\* the sector size the last call dispatched on
CallSize == IF call.op = "clear_cache" THEN call.arg.size ELSE call.proof.sector_size

\* C10: for every proof type of the registry the dispatch selects one shape, the
\* one the table assigns to its sector size, and every backend operation the
\* call invokes is the one specialized for that shape; the backend is reached.
C10_DispatchTable ==
    ( /\ call.op \in {"clear_cache", "seal_pre_commit_phase1", "seal_pre_commit_phase2"}
      /\ CallSize \in RegistrySizes
      /\ call.op # "clear_cache" => call.proof.version = "V1" )
    => /\ \A i \in 1..Len(invoked) :
             invoked[i].shape = PayloadShape(Variant([sector_size |-> CallSize, version |-> "V1"]))
       /\ call.op \in {"clear_cache", "seal_pre_commit_phase1"} => Len(invoked) = 1
       /\ call.result.kind # "Panic" => invoked # <<>>

C10_Witness ==
    /\ call.op = "seal_pre_commit_phase2"
    /\ call.proof = [sector_size |-> "512MiB", version |-> "V1"]
    /\ Len(invoked) = 2
    /\ \A i \in 1..2 : invoked[i].shape = "SectorShape512MiB"

\* C11: clear_cache is idempotent. After a clear_cache that succeeded, the
\* directory is cleared, and a second clear_cache with the same sector size and
\* cache path, which finds the artifacts already absent, returns Ok and leaves
\* the cache and the sealed output exactly as the first call left them.
C11_ClearCacheIdempotent ==
    (call.op = "clear_cache" /\ call.result.kind = "Ok") =>
        LET second == clear_cache(call.arg.size, call.dir) IN
        /\ cache[call.dir] = Empty
        /\ second.result = Ok(NoVal)
        /\ second.cache = cache
        /\ second.sealed = sealed

C11_Witness ==
    /\ call.op = "clear_cache"
    /\ call.result = Ok(NoVal)
    /\ cache[call.dir] = Empty
    /\ sealed[call.dir] = "sealed"
    /\ clear_cache(call.arg.size, call.dir).result = Ok(NoVal)

SealingUnderWay(d) == cache[d].kind = "artifacts" /\ cache[d].stage = 1

\* what the verification of call c returns when nothing else runs
VerifyAlone(c) ==
    IF c.op = "verify_seal"
    THEN verify_seal(c.proof, c.arg.comm_r, c.arg.comm_d, "prover0", 1, "ticket1", "seed2",
                     c.arg.proof_vec).result
    ELSE verify_batch_seal(c.proof, [i \in DOMAIN c.arg |-> c.arg[i].comm_r],
                           [i \in DOMAIN c.arg |-> c.arg[i].comm_d],
                           [i \in DOMAIN c.arg |-> "prover0"], [i \in DOMAIN c.arg |-> 1],
                           [i \in DOMAIN c.arg |-> "ticket1"],
                           [i \in DOMAIN c.arg |-> "seed2"],
                           [i \in DOMAIN c.arg |-> c.arg[i].proof_vec]).result

SealingFns == {"seal_pre_commit_phase1", "seal_pre_commit_phase2"}
SealingCalls(inv) == {i \in 1..Len(inv) : inv[i].fn \in SealingFns}

\* C15: no phase retries. Within one call of seal_pre_commit_phase1 or
\* seal_pre_commit_phase2 the backend's sealing operation is invoked at most
\* once, and it is the operation of that phase; when a backend operation fails
\* nothing is invoked after it and the call returns an error, the backend's
\* failure when it was the sealing that failed; a call that returns a value
\* has run the sealing once, with success.
C15_NoRetry ==
    call.op \in SealingFns =>
        /\ Cardinality(SealingCalls(invoked)) <= 1
        /\ \A i \in SealingCalls(invoked) : invoked[i].fn = call.op
        /\ \A i \in 1..Len(invoked) :
              ~invoked[i].ok => (i = Len(invoked) /\ call.result.kind = "Err")
        /\ \A i \in SealingCalls(invoked) :
              ~invoked[i].ok => call.result = Err("BackendFailure")
        /\ call.result.kind = "Ok" =>
              \E i \in SealingCalls(invoked) : invoked[i].ok

C15_Witness ==
    /\ call.op = "seal_pre_commit_phase2"
    /\ Len(invoked) = 2
    /\ invoked[2].fn = "seal_pre_commit_phase2"
    /\ ~invoked[2].ok
    /\ call.result = Err("BackendFailure")
    /\ \E d \in Dirs : d # call.dir /\ Succeeded("seal_pre_commit_phase2", d)

\* the shape seal_pre_commit_phase2 dispatches to for a phase-1 output
Phase2Shape(p1) == with_shape(DispatchSize(p1.registered_proof))

\* C16: every output that seal_pre_commit_phase1 returns carries a label
\* envelope whose variant is the one of its registered_proof, with a payload of
\* that variant's shape; so seal_pre_commit_phase2, given that output as it is,
\* dispatches to a shape the envelope unwraps to without a mismatch, and does
\* not panic.
C16_Phase1LabelsMatchProof ==
    (call.op = "seal_pre_commit_phase1" /\ call.result.kind = "Ok") =>
        LET p1 == call.result.val IN
        /\ p1.labels.tag = Variant(p1.registered_proof)
        /\ p1.labels \in Labels
        /\ Phase2Shape(p1).kind = "Ok"
        /\ PayloadShape(p1.labels.tag) = Phase2Shape(p1).val
        /\ LabelsInto(p1.labels, Phase2Shape(p1).val) = Ok(p1.labels.raw)
        /\ \A d \in Dirs, be \in BackendOutcomes :
              seal_pre_commit_phase2(p1, d, be).result.kind # "Panic"

C16_Witness ==
    /\ call.op = "seal_pre_commit_phase1"
    /\ call.result.kind = "Ok"
    /\ call.result.val.labels.tag = "StackedDrg512MiBV1"
    /\ seal_pre_commit_phase2(call.result.val, call.dir, "ok").result.kind = "Ok"

\* C17: the proof type is threaded unchanged through the pre-commit phases. The
\* registered_proof of an output of seal_pre_commit_phase1 is the
\* registered_proof the call was given, and the registered_proof of an output of
\* seal_pre_commit_phase2 is the one of the phase-1 output the call was given.
C17_ProofTypeThreaded ==
    /\ (call.op = "seal_pre_commit_phase1" /\ call.result.kind = "Ok")
          => call.result.val.registered_proof = call.proof
    /\ (call.op = "seal_pre_commit_phase2" /\ call.result.kind = "Ok")
          => call.result.val.registered_proof = call.arg.registered_proof

C17_Witness ==
    /\ call.op = "seal_pre_commit_phase2"
    /\ call.result.kind = "Ok"
    /\ call.arg.registered_proof = [sector_size |-> "32GiB", version |-> "V1"]
    /\ call.result.val.registered_proof = [sector_size |-> "32GiB", version |-> "V1"]

\* C18: the data commitment is threaded unchanged through phase 2. Whenever
\* seal_pre_commit_phase2 succeeds, the comm_d of its output is the comm_d of
\* the phase-1 output it was given.
C18_CommDThreaded ==
    (call.op = "seal_pre_commit_phase2" /\ call.result.kind = "Ok")
        => call.result.val.comm_d = call.arg.comm_d

C18_Witness ==
    /\ call.op = "seal_pre_commit_phase2"
    /\ call.result.kind = "Ok"
    /\ call.arg.comm_d = BackendCommD(<<"pb", "pa">>)
    /\ call.result.val.comm_d = BackendCommD(<<"pb", "pa">>)
    /\ call.result.val.comm_r = BackendCommR(call.arg.labels.raw, call.arg.comm_d)
====
